---- MODULE Spec2Model ----
(***************************************************************************)
(* guestvault: content-addressed blob store with reference-counted         *)
(* deletion (guestvault/routes.py, storage.py, db.py, security.py).        *)
(*                                                                         *)
(* Text (file names, hex digests, form values) is a sequence of            *)
(* one-character strings; a path is a sequence of segments, each segment   *)
(* text.  File-system paths are kept relative to BASE_DIR, so the storage  *)
(* root UPLOAD_DIR = BASE_DIR / "uploads" is the one-segment path          *)
(* <<uploads>> and a path that starts with ".." lies outside BASE_DIR.     *)
(***************************************************************************)
EXTENDS Integers, Sequences, FiniteSets, TLC

VARIABLES
    files,      \* table "files": live row id -> row
    lastrowid,  \* sqlite AUTOINCREMENT high-water mark (ids are never reused)
    disk,       \* regular files: path (relative to BASE_DIR) -> bytes
    dirs,       \* directories that exist (paths relative to BASE_DIR)
    session,    \* the client's Flask session: is_admin, csrf_token
    buckets,    \* RateLimiter.buckets: key -> deque of timestamps
    now,        \* time.time()
    last,       \* the response to the last request handled as one step
    pc,         \* per worker: the position of the request it is handling
    loc,        \* per worker: that request's local variables
    legacy      \* the single-file app (src/app.py) run beside the package:
                \* its table, its files and directories, its last answer

vars == <<files, lastrowid, disk, dirs, session, buckets, now, last, pc, loc, legacy>>

----------------------------------------------------------------------------
(* Bounds of the model *)

\* rows the catalog may ever hold (caps the AUTOINCREMENT counter)
MaxId == 3
\* entries of the "ids" form field of one bulk-delete request
MaxBulk == 2
\* rows the catalog may ever hold where bulk deletes are explored
MaxBulkRows == 2
\* the clock stops here
MaxTime == 2

----------------------------------------------------------------------------
(* Text helpers *)

None == <<"N", "o", "n", "e">>

RECURSIVE LStrip(_, _)
LStrip(s, cs) ==
    IF s # <<>> /\ Head(s) \in cs THEN LStrip(Tail(s), cs) ELSE s

RECURSIVE RStrip(_, _)
RStrip(s, cs) ==
    IF s # <<>> /\ s[Len(s)] \in cs THEN RStrip(SubSeq(s, 1, Len(s) - 1), cs) ELSE s

\* str.strip(chars)
Strip(s, cs) == RStrip(LStrip(s, cs), cs)

\* str.replace(old, new) for one-character old and new
Replace(s, old, new) == [i \in 1..Len(s) |-> IF s[i] = old THEN new ELSE s[i]]

\* "_".join(s.split()): whitespace runs become one "_", none at the ends
RECURSIVE JoinWords(_)
JoinWords(s) ==
    IF s = <<>> THEN <<>>
    ELSE IF Head(s) = " " THEN <<"_">> \o JoinWords(LStrip(s, {" "}))
    ELSE <<Head(s)>> \o JoinWords(Tail(s))

SplitJoin(s) == JoinWords(Strip(s, {" "}))

\* the characters _filename_ascii_strip_re keeps: [A-Za-z0-9_.-]
FilenameAscii ==
    {"a", "b", "t", "x", "0", "1", "2", "3", "4", "5", "6", "7", "8", "9",
     "c", "e", "f", "_", ".", "-"}

\* werkzeug.utils.secure_filename (posix: os.sep = "/", no altsep)
secure_filename(filename) ==
    Strip(SelectSeq(SplitJoin(Replace(filename, "/", " ")),
                    LAMBDA ch : ch \in FilenameAscii),
          {".", "_"})

\* the largest index of ch in s, 0 when absent (str.rfind + 1)
RFind(s, ch) ==
    IF \E i \in 1..Len(s) : s[i] = ch
    THEN CHOOSE i \in 1..Len(s) : s[i] = ch /\ \A j \in (i + 1)..Len(s) : s[j] # ch
    ELSE 0

\* os.path.splitext(p)[1] for a name without separators: the text from the
\* last dot on, unless only dots precede it
splitext_ext(p) ==
    LET dot == RFind(p, ".") IN
    IF dot > 0 /\ \E i \in 1..(dot - 1) : p[i] # "."
    THEN SubSeq(p, dot, Len(p))
    ELSE <<>>

\* int(v) for a form value: the decimal number, or -1 for what raises ValueError
Digits == <<"0", "1", "2", "3", "4", "5", "6", "7", "8", "9">>
DigitVal(ch) == (CHOOSE i \in 1..10 : Digits[i] = ch) - 1
RECURSIVE ParseDigits(_, _)
ParseDigits(s, acc) ==
    IF s = <<>> THEN acc ELSE ParseDigits(Tail(s), 10 * acc + DigitVal(Head(s)))
ParseInt(v) ==
    IF v # <<>> /\ \A i \in 1..Len(v) : \E d \in 1..10 : Digits[d] = v[i]
    THEN ParseDigits(v, 0)
    ELSE -1

\* str(n) for 0 <= n <= 9, the form value a page sends for row n
ToText(n) == <<Digits[n + 1]>>

----------------------------------------------------------------------------
(* Paths *)

Txt_uploads == <<"u", "p", "l", "o", "a", "d", "s">>
DotDot == <<".", ".">>

\* app.config["UPLOAD_DIR"] = base_dir / "uploads", relative to BASE_DIR
UPLOAD_DIR == <<Txt_uploads>>

\* os.path.join(a, b) for relative b and non-empty a
path_join(a, b) == a \o <<"/">> \o b

\* the segments of a path text, as pathlib parses it: split at "/", empty
\* and "." segments dropped
RECURSIVE PathParts(_, _)
PathParts(text, cur) ==
    LET done == IF cur = <<>> \/ cur = <<".">> THEN <<>> ELSE <<cur>> IN
    IF text = <<>> THEN done
    ELSE IF Head(text) = "/" THEN done \o PathParts(Tail(text), <<>>)
    ELSE PathParts(Tail(text), Append(cur, Head(text)))

\* Path(base) / rel
PathUnder(base, rel) == base \o PathParts(rel, <<>>)

\* the file-system object a segment list names: ".." steps to the parent
\* (beyond BASE_DIR it stays as a leading "..")
RECURSIVE Resolve(_, _)
Resolve(segs, acc) ==
    IF segs = <<>> THEN acc
    ELSE IF Head(segs) = DotDot
         THEN IF acc # <<>> /\ acc[Len(acc)] # DotDot
              THEN Resolve(Tail(segs), SubSeq(acc, 1, Len(acc) - 1))
              ELSE Resolve(Tail(segs), Append(acc, DotDot))
    ELSE Resolve(Tail(segs), Append(acc, Head(segs)))

\* Path.parent and Path.name
Parent(p) == IF p = <<>> THEN <<>> ELSE SubSeq(p, 1, Len(p) - 1)
Name(p) == IF p = <<>> THEN <<>> ELSE p[Len(p)]

\* whether a resolved path lies inside the storage root
InsideRoot(p) ==
    Len(p) > Len(UPLOAD_DIR) /\ SubSeq(p, 1, Len(UPLOAD_DIR)) = UPLOAD_DIR

\* the function f without key k
Without(f, k) == [x \in DOMAIN f \ {k} |-> f[x]]

\* the function f with key k set to v
With(f, k, v) == [x \in DOMAIN f \cup {k} |-> IF x = k THEN v ELSE f[x]]

----------------------------------------------------------------------------
(* storage.py *)

\* bytes of one stream read; the code reads 1024 * 1024 at a time
ChunkSize == 2

\* contents uploaded in the model
BytesA == <<1, 2, 3>>
BytesB == <<7>>

\* hashlib.sha256(b).hexdigest(), cut to three hex characters.  SHA-256 is
\* taken to be collision free: distinct byte strings get distinct digests.
\* BytesA and BytesB share the two-character prefix, as some contents do.
Sha256Hex(b) ==
    CASE b = BytesA -> <<"2", "c", "f">>
      [] b = BytesB -> <<"2", "c", "7">>
      [] OTHER -> <<"e", "3">> \o [i \in 1..Len(b) |-> Digits[b[i] + 1]]

\* the loop of _hash_fileobj: read chunks from the stream position to the
\* end, feeding each to the hasher and adding up the sizes
RECURSIVE HashLoop(_, _, _, _)
HashLoop(data, pos, fed, size) ==
    LET chunk == SubSeq(data, pos + 1,
                        IF pos + ChunkSize < Len(data) THEN pos + ChunkSize ELSE Len(data))
    IN IF chunk = <<>> THEN [fed |-> fed, size |-> size]
       ELSE HashLoop(data, pos + Len(chunk), fed \o chunk, size + Len(chunk))

\* a variant that leaves the stream where the hashing ended
hash_fileobj_no_seek(stream) ==
    LET r == HashLoop(stream.data, stream.pos, <<>>, 0)
    IN [sha256 |-> Sha256Hex(r.fed), size |-> r.size, pos |-> stream.pos + r.size]

\* _hash_fileobj(f): digest and size of what is read from the current
\* position; the stream is left at position 0
hash_fileobj(stream) ==
    LET r == HashLoop(stream.data, stream.pos, <<>>, 0)
    IN [sha256 |-> Sha256Hex(r.fed), size |-> r.size, pos |-> 0]

\* Path.mkdir(parents=True, exist_ok=True) below the storage root
Mkdir(ds, d) == ds \cup {SubSeq(d, 1, n) : n \in 1..Len(d)}

\* a variant that stores the blob under the uploaded name
store_plan_by_name(stream, filename_sanitized) ==
    LET h == hash_fileobj(stream)
        sha_prefix == SubSeq(h.sha256, 1, 2)
        abs_dir == UPLOAD_DIR \o <<sha_prefix>>
    IN [abs_dir |-> abs_dir,
        abs_path |-> abs_dir \o <<filename_sanitized>>,
        pos |-> h.pos,
        meta |-> [filename_original |-> filename_sanitized,
                  stored_relpath |-> path_join(sha_prefix, filename_sanitized),
                  size |-> h.size,
                  sha256 |-> h.sha256,
                  uploaded_at |-> now,
                  download_count |-> 0]]

\* the part of store_file before the write: hash, name, path
store_plan(stream, filename_sanitized) ==
    LET h == hash_fileobj(stream)
        ext == splitext_ext(filename_sanitized)
        sha_prefix == SubSeq(h.sha256, 1, 2)
        stored_filename == h.sha256 \o ext
        rel_path == path_join(sha_prefix, stored_filename)
        abs_dir == UPLOAD_DIR \o <<sha_prefix>>
    IN [abs_dir |-> abs_dir,
        abs_path |-> abs_dir \o <<stored_filename>>,
        pos |-> h.pos,
        meta |-> [filename_original |-> filename_sanitized,
                  stored_relpath |-> Replace(rel_path, "\\", "/"),
                  size |-> h.size,
                  sha256 |-> h.sha256,
                  uploaded_at |-> now,
                  download_count |-> 0]]

\* file_storage.save(abs_path): open(dst, "wb") and copy the stream from
\* its position
Save(dk, abs_path, stream, pos) ==
    With(dk, abs_path, SubSeq(stream.data, pos + 1, Len(stream.data)))

\* what a failing save can leave at abs_path: nothing new (open failed), or
\* the file truncated and holding a proper prefix (a write failed)
SaveFailures(dk, abs_path, stream, pos) ==
    {dk} \cup {With(dk, abs_path, SubSeq(stream.data, pos + 1, pos + k)) :
                  k \in 0..(Len(stream.data) - pos - 1)}

\* the file a stored_relpath names below the storage root
blob_path(rel_path) == Resolve(PathUnder(UPLOAD_DIR, rel_path), <<>>)

\* abs_path.unlink(missing_ok=True): a file is removed, a missing path is
\* let pass, a directory raises
unlink_blob(fs, rel_path) ==
    LET abs_path == blob_path(rel_path) IN
    IF abs_path \in DOMAIN fs.disk
    THEN [fs EXCEPT !.disk = Without(fs.disk, abs_path),
                    !.removed = Append(fs.removed, abs_path)]
    ELSE [fs EXCEPT !.raised = abs_path \in fs.dirs]

\* abs_path.parent.rmdir(): removes the directory when it exists and is
\* empty, raises otherwise
rmdir_parent(fs, rel_path) ==
    LET parent == Parent(blob_path(rel_path)) IN
    IF /\ parent \in fs.dirs
       /\ \A q \in (DOMAIN fs.disk) \cup fs.dirs : Parent(q) # parent \/ q = <<>>
    THEN [fs EXCEPT !.dirs = fs.dirs \ {parent},
                    !.rmdirs = Append(fs.rmdirs, parent)]
    ELSE [fs EXCEPT !.raised = TRUE]

\* the try block of delete_blob_if_unreferenced: unlink, then rmdir unless
\* unlink raised; the exception is swallowed
unlink_and_rmdir(fs, rel_path) ==
    LET fs1 == unlink_blob(fs, rel_path) IN
    IF fs1.raised
    THEN [fs1 EXCEPT !.raised = FALSE]
    ELSE [rmdir_parent(fs1, rel_path) EXCEPT !.raised = FALSE]

\* a variant that counts the rows of every digest
count_all_rows(f, sha256_hex) ==
    Cardinality(DOMAIN f)

\* SELECT COUNT(*) FROM files WHERE sha256 = ?
count_by_sha256(f, sha256_hex) ==
    Cardinality({i \in DOMAIN f : f[i].sha256 = sha256_hex})

\* a variant that unlinks while one row of the digest is left
delete_blob_if_at_most_one(f, fs, sha256_hex, rel_path) ==
    IF count_by_sha256(f, sha256_hex) <= 1
    THEN unlink_and_rmdir(fs, rel_path)
    ELSE fs

\* delete_blob_if_unreferenced(sha256_hex, rel_path) on catalog f
delete_blob_if_unreferenced(f, fs, sha256_hex, rel_path) ==
    IF count_by_sha256(f, sha256_hex) = 0
    THEN unlink_and_rmdir(fs, rel_path)
    ELSE fs

----------------------------------------------------------------------------
(* db.py *)

\* insert_file_record(meta): the row and its AUTOINCREMENT id
insert_file_record(f, lastid, meta) ==
    [files |-> With(f, lastid + 1, meta), lastrowid |-> lastid + 1]

\* DELETE FROM files WHERE id = ?
delete_row(f, file_id) == IF file_id \in DOMAIN f THEN Without(f, file_id) ELSE f

\* increment_download_count(file_id): no row, no change
increment_download_count(f, file_id) ==
    IF file_id \in DOMAIN f
    THEN [f EXCEPT ![file_id].download_count = @ + 1]
    ELSE f

----------------------------------------------------------------------------
(* security.py *)

\* values secrets.token_hex(32) may return
Tokens == {<<"a", "1">>, <<"b", "2">>}

\* os.environ["ADMIN_PASSWORD"]
ADMIN_PASSWORD == <<"p", "w">>

\* a variant that lets every session pass
is_admin_any(sess) == TRUE

\* session.get("is_admin") is truthy
is_admin(sess) == sess.is_admin

\* request.headers.get("X-CSRF-Token") or request.form.get("csrf_token");
\* an absent value and an empty one are both falsy and are both <<>> here
csrf_from_request(req) == IF req.header # <<>> THEN req.header ELSE req.form

\* a variant without the "not token" test
csrf_valid_no_empty_test(token, sess) == token = sess.csrf_token

\* validate_csrf_token does not abort; a session without a token holds <<>>
csrf_valid(token, sess) == token # <<>> /\ token = sess.csrf_token

validate_csrf_from_request(req, sess) == csrf_valid(csrf_from_request(req), sess)

\* generate_csrf_token(): the session after a page was rendered
generate_csrf_token(sess, fresh) ==
    IF sess.csrf_token = <<>> THEN [sess EXCEPT !.csrf_token = fresh] ELSE sess

\* LOGIN_LIMIT_ATTEMPTS and LOGIN_LIMIT_WINDOW of the environment (the code
\* defaults to 8 attempts in 300 seconds)
LimitAttempts == 2
LimitWindow == 1

\* the prune loop of RateLimiter.check
RECURSIVE Prune(_, _)
Prune(q, t) ==
    IF q # <<>> /\ (t - Head(q)) > LimitWindow THEN Prune(Tail(q), t) ELSE q

\* RateLimiter.check(key) at time t: the buckets after it, and its answer
limiter_check(b, key, t) ==
    LET q == Prune(IF key \in DOMAIN b THEN b[key] ELSE <<>>, t)
    IN IF Len(q) >= LimitAttempts
       THEN [buckets |-> With(b, key, q), allowed |-> FALSE]
       ELSE [buckets |-> With(b, key, Append(q, t)), allowed |-> TRUE]

----------------------------------------------------------------------------
(* routes.py: each handler as one step *)

Workers == {"w1", "w2"}

NoLoc == [op |-> "none"]

NoCsrf == [header |-> <<>>, form |-> <<>>]

\* whether a request presents the token its session holds: some token is
\* sent (the header's, else the form's), the session has one, they are equal
TokenPresented(req, sess) ==
    \E t \in Tokens :
        /\ sess.csrf_token = t
        /\ \/ req.header = t
           \/ req.header = <<>> /\ req.form = t

\* the response record: what the request was and what came of it.
\* token_ok notes whether the request presented its session's token.
Response(op, status, req) ==
    [op |-> op, status |-> status,
     token_ok |-> TokenPresented(req, session),
     file_id |-> 0, filename |-> None, fault |-> "none", count |-> 0,
     removed |-> <<>>, rmdirs |-> <<>>, served |-> <<>>]

\* the file system as the storage operators take it
FS == [disk |-> disk, dirs |-> dirs, removed |-> <<>>, rmdirs |-> <<>>, raised |-> FALSE]

Idle == \A w \in Workers : pc[w] = "idle"

\* abort(status): the handler ends before touching catalog, store, session
\* or limiter
Refuse(op, status, req) ==
    /\ last' = Response(op, status, req)
    /\ UNCHANGED <<files, lastrowid, disk, dirs, session, buckets, now, pc, loc>>

\* a variant that inserts the row although the blob write raised
upload_catalog_after_failed_save(f, lastid, meta, fault) ==
    IF fault \in {"none", "save"}
    THEN insert_file_record(f, lastid, meta)
    ELSE [files |-> f, lastrowid |-> lastid]

\* lines 104-105 of upload: insert_file_record runs only when store_file
\* returned; an exception of either call ends the request
upload_catalog(f, lastid, meta, fault) ==
    IF fault = "none"
    THEN insert_file_record(f, lastid, meta)
    ELSE [files |-> f, lastrowid |-> lastid]

\* upload(): req = [header, form, has_file, filename, data]; fault names the
\* call that raises, if any ("mkdir", "save", "insert")
Upload(req, fault) ==
    /\ Idle
    /\ IF ~validate_csrf_from_request(req, session) THEN Refuse("upload", 400, req)
       ELSE IF ~req.has_file THEN Refuse("upload", 400, req)
       ELSE IF req.filename = <<>> THEN Refuse("upload", 400, req)
       ELSE
         LET filename == secure_filename(req.filename)
             plan == store_plan([data |-> req.data, pos |-> 0], filename)
             stream == [data |-> req.data, pos |-> plan.pos]
             resp == [Response("upload", 500, req) EXCEPT !.filename = filename,
                                                          !.fault = fault]
         IN
         /\ IF fault = "mkdir"
            THEN UNCHANGED <<disk, dirs>>
            ELSE IF fault = "save"
            THEN /\ dirs' = Mkdir(dirs, plan.abs_dir)
                 /\ disk' \in SaveFailures(disk, plan.abs_path, stream, plan.pos)
            ELSE /\ dirs' = Mkdir(dirs, plan.abs_dir)
                 /\ disk' = Save(disk, plan.abs_path, stream, plan.pos)
         /\ LET ins == upload_catalog(files, lastrowid, plan.meta, fault) IN
            /\ files' = ins.files
            /\ lastrowid' = ins.lastrowid
            /\ last' = IF fault = "none"
                       THEN [resp EXCEPT !.status = 302, !.file_id = ins.lastrowid]
                       ELSE resp
         /\ UNCHANGED <<session, buckets, now, pc, loc>>

\* werkzeug's send_from_directory(directory, filename): safe_join refuses a
\* filename that climbs, and what is not a regular file is not found
send_from_directory(dk, directory, filename) ==
    LET path == Resolve(directory \o (IF filename = <<>> THEN <<>> ELSE <<filename>>), <<>>)
    IN IF filename = DotDot \/ path \notin DOMAIN dk
       THEN [ok |-> FALSE, path |-> <<>>]
       ELSE [ok |-> TRUE, path |-> path]

\* lines 132-134 and 143-145: the file download and raw send for a row
send_row(dk, row) ==
    LET rel == PathParts(row.stored_relpath, <<>>)
    IN send_from_directory(dk, UPLOAD_DIR \o Parent(rel), Name(rel))

\* download(file_id)
Download(file_id) ==
    /\ Idle
    /\ IF file_id \notin DOMAIN files THEN Refuse("download", 404, NoCsrf)
       ELSE
         LET sent == send_row(disk, files[file_id])
         IN /\ files' = increment_download_count(files, file_id)
            /\ last' = [Response("download", IF sent.ok THEN 200 ELSE 404, NoCsrf)
                           EXCEPT !.file_id = file_id, !.served = sent.path]
            /\ UNCHANGED <<lastrowid, disk, dirs, session, buckets, now, pc, loc>>

\* raw(file_id)
Raw(file_id) ==
    /\ Idle
    /\ IF file_id \notin DOMAIN files THEN Refuse("raw", 404, NoCsrf)
       ELSE
         LET sent == send_row(disk, files[file_id])
         IN /\ last' = [Response("raw", IF sent.ok THEN 200 ELSE 404, NoCsrf)
                           EXCEPT !.file_id = file_id, !.served = sent.path]
            /\ UNCHANGED <<files, lastrowid, disk, dirs, session, buckets, now, pc, loc>>

\* delete_file(file_id)
DeleteFile(req, file_id) ==
    /\ Idle
    /\ IF ~is_admin(session) THEN Refuse("delete", 403, req)
       ELSE IF ~validate_csrf_from_request(req, session) THEN Refuse("delete", 400, req)
       ELSE IF file_id \notin DOMAIN files THEN Refuse("delete", 404, req)
       ELSE
         LET row == files[file_id]
             f1 == delete_row(files, file_id)
             fs1 == delete_blob_if_unreferenced(f1, FS, row.sha256, row.stored_relpath)
         IN /\ files' = f1
            /\ disk' = fs1.disk
            /\ dirs' = fs1.dirs
            /\ last' = [Response("delete", 302, req) EXCEPT !.file_id = file_id,
                                                            !.removed = fs1.removed,
                                                            !.rmdirs = fs1.rmdirs]
            /\ UNCHANGED <<lastrowid, session, buckets, now, pc, loc>>

\* lines 172-177 of bulk_delete: the form values that int() accepts
RECURSIVE ParseIds(_)
ParseIds(raw_ids) ==
    IF raw_ids = <<>> THEN <<>>
    ELSE LET n == ParseInt(Head(raw_ids))
         IN (IF n >= 0 THEN <<n>> ELSE <<>>) \o ParseIds(Tail(raw_ids))

\* a variant that selects the rows of all ids before it deletes any
BulkRowsSelectFirst(f, ids, rows) ==
    LET found == SelectSeq(ids, LAMBDA i : i \in DOMAIN f)
    IN [files |-> [i \in DOMAIN f \ {ids[k] : k \in 1..Len(ids)} |-> f[i]],
        rows |-> rows \o [k \in 1..Len(found) |-> f[found[k]]]]

\* lines 184-192 of bulk_delete: select and delete each id's row in one
\* transaction; the rows found, in order
RECURSIVE BulkRows(_, _, _)
BulkRows(f, ids, rows) ==
    IF ids = <<>> THEN [files |-> f, rows |-> rows]
    ELSE IF Head(ids) \in DOMAIN f
         THEN BulkRows(delete_row(f, Head(ids)), Tail(ids), Append(rows, f[Head(ids)]))
         ELSE BulkRows(f, Tail(ids), rows)

\* a variant that handles each digest of the batch once
RECURSIVE BulkBlobsOncePerDigest(_, _, _)
BulkBlobsOncePerDigest(f, fs, rows) ==
    IF rows = <<>> THEN fs
    ELSE BulkBlobsOncePerDigest(f,
             delete_blob_if_unreferenced(f, fs, Head(rows).sha256,
                                         Head(rows).stored_relpath),
             SelectSeq(Tail(rows), LAMBDA r : r.sha256 # Head(rows).sha256))

\* lines 195-196 of bulk_delete: one delete_blob_if_unreferenced per row
RECURSIVE BulkBlobs(_, _, _)
BulkBlobs(f, fs, rows) ==
    IF rows = <<>> THEN fs
    ELSE BulkBlobs(f,
                   delete_blob_if_unreferenced(f, fs, Head(rows).sha256,
                                               Head(rows).stored_relpath),
                   Tail(rows))

\* bulk_delete(): raw_ids is the "ids" form field
BulkDelete(req, raw_ids) ==
    /\ Idle
    /\ IF ~is_admin(session) THEN Refuse("bulk", 403, req)
       ELSE IF ~validate_csrf_from_request(req, session) THEN Refuse("bulk", 400, req)
       ELSE IF ParseIds(raw_ids) = <<>> THEN Refuse("bulk", 302, req)
       ELSE
         LET r == BulkRows(files, ParseIds(raw_ids), <<>>)
             fs1 == BulkBlobs(r.files, FS, r.rows)
         IN /\ files' = r.files
            /\ disk' = fs1.disk
            /\ dirs' = fs1.dirs
            /\ last' = [Response("bulk", 302, req) EXCEPT !.count = Len(r.rows),
                                                          !.removed = fs1.removed,
                                                          !.rmdirs = fs1.rmdirs]
            /\ UNCHANGED <<lastrowid, session, buckets, now, pc, loc>>

\* a page that renders a template (index, login form): inject_globals
\* calls generate_csrf_token
RenderPage(fresh) ==
    /\ Idle
    /\ session' = generate_csrf_token(session, fresh)
    /\ last' = Response("page", 200, NoCsrf)
    /\ UNCHANGED <<files, lastrowid, disk, dirs, buckets, now, pc, loc>>

\* admin_login_post(): ip is the limiter key taken from the request
AdminLoginPost(req, ip, password) ==
    /\ Idle
    /\ IF ~validate_csrf_from_request(req, session) THEN Refuse("login", 400, req)
       ELSE
         LET r == limiter_check(buckets, ip, now)
             good == password # <<>> /\ password = ADMIN_PASSWORD
         IN /\ buckets' = r.buckets
            /\ session' = IF r.allowed /\ good
                          THEN [session EXCEPT !.is_admin = TRUE]
                          ELSE session
            /\ last' = Response("login", IF r.allowed THEN 302 ELSE 429, req)
            /\ UNCHANGED <<files, lastrowid, disk, dirs, now, pc, loc>>

\* admin_logout(): session.pop("is_admin")
AdminLogout ==
    /\ Idle
    /\ session' = [session EXCEPT !.is_admin = FALSE]
    /\ last' = Response("logout", 302, NoCsrf)
    /\ UNCHANGED <<files, lastrowid, disk, dirs, buckets, now, pc, loc>>

\* time passes
Tick ==
    /\ now < MaxTime
    /\ now' = now + 1
    /\ UNCHANGED <<files, lastrowid, disk, dirs, session, buckets, last, pc, loc>>

----------------------------------------------------------------------------
(* Requests of the model *)

Name_a_t == <<"a", ".", "t">>
Name_b_t == <<"b", ".", "t">>
Name_a_x == <<"a", ".", "x">>
Name_up_a_t == <<".", ".", "/", "a", ".", "t">>

\* the token fields of a request
Csrf(header, form) == [header |-> header, form |-> form]

\* a request that carries the session's token in its form
GoodCsrf == Csrf(<<>>, session.csrf_token)

\* the token fields a client may send: no header or any token in it, no
\* form field or one token in it
CsrfInputs ==
    {Csrf(h, f) : h \in {<<>>} \cup Tokens, f \in {<<>>, <<"a", "1">>}}

UploadReq(csrf, u) ==
    [header |-> csrf.header, form |-> csrf.form, has_file |-> u[1],
     filename |-> u[2], data |-> u[3]]

\* the multipart bodies a client may send: <<file part present, name, bytes>>
UploadInputs ==
    {<<TRUE, Name_a_t, BytesA>>, <<TRUE, Name_b_t, BytesA>>,
     <<TRUE, Name_a_x, BytesA>>, <<TRUE, Name_a_t, BytesB>>,
     <<TRUE, Name_up_a_t, BytesA>>, <<TRUE, DotDot, BytesA>>,
     <<TRUE, <<>>, BytesA>>, <<FALSE, <<>>, <<>>>>}

\* fewer bodies, where other inputs are many
FewUploadInputs ==
    {<<TRUE, Name_a_t, BytesA>>, <<TRUE, Name_a_x, BytesA>>,
     <<TRUE, Name_a_t, BytesB>>}

\* the values of one "ids" form entry: the ids of rows, and a non-number
IdInputs(n) == {ToText(i) : i \in 1..n} \cup {<<"x">>}

\* the "ids" form fields a client may send
BulkInputs(n) == UNION {[1..k -> IdInputs(n)] : k \in 0..MaxBulk}

----------------------------------------------------------------------------
(* Spec: the vault handling one request at a time, for an administrator    *)
(* whose session holds a token; uploads and single deletes, no call fails. *)

NoResponse ==
    [op |-> "none", status |-> 0, token_ok |-> FALSE,
     file_id |-> 0, filename |-> None, fault |-> "none", count |-> 0,
     removed |-> <<>>, rmdirs |-> <<>>, served |-> <<>>]

\* the single-file app after ensure_dirs() and init_db()
LegacyInit ==
    [files |-> <<>>, lastrowid |-> 0, disk |-> <<>>, dirs |-> {UPLOAD_DIR},
     status |-> 0]

InitStore ==
    /\ legacy = LegacyInit
    /\ files = <<>>
    /\ lastrowid = 0
    /\ disk = <<>>
    /\ dirs = {UPLOAD_DIR}
    /\ buckets = <<>>
    /\ now = 0
    /\ last = NoResponse
    /\ pc = [w \in Workers |-> "idle"]
    /\ loc = [w \in Workers |-> NoLoc]

Init ==
    /\ InitStore
    /\ \E t \in Tokens : session = [is_admin |-> TRUE, csrf_token |-> t]

DoUpload ==
    /\ lastrowid < MaxId
    /\ \E u \in UploadInputs : Upload(UploadReq(GoodCsrf, u), "none")
    /\ UNCHANGED legacy

DoDelete ==
    /\ \E i \in 1..MaxId : DeleteFile(GoodCsrf, i)
    /\ UNCHANGED legacy

Next == DoUpload \/ DoDelete

Spec == Init /\ [][Next]_vars

----------------------------------------------------------------------------
(* SpecBulk: as Spec, with bulk deletes, on a smaller catalog *)

BulkUpload ==
    /\ lastrowid < MaxBulkRows
    /\ \E u \in FewUploadInputs : Upload(UploadReq(GoodCsrf, u), "none")
    /\ UNCHANGED legacy

BulkDeleteOne ==
    /\ \E i \in 1..MaxBulkRows : DeleteFile(GoodCsrf, i)
    /\ UNCHANGED legacy

DoBulkDelete ==
    /\ \E ids \in BulkInputs(MaxBulkRows) : BulkDelete(GoodCsrf, ids)
    /\ UNCHANGED legacy

NextBulk == BulkUpload \/ BulkDeleteOne \/ DoBulkDelete

SpecBulk == Init /\ [][NextBulk]_vars

----------------------------------------------------------------------------
(* SpecFault: as Spec, where a call of an upload may raise *)

\* rows the catalog may ever hold where uploads may fail
MaxFaultRows == 2

Faults == {"none", "mkdir", "save", "insert"}

FaultUpload ==
    /\ lastrowid < MaxFaultRows
    /\ \E u \in FewUploadInputs, fault \in Faults :
          Upload(UploadReq(GoodCsrf, u), fault)
    /\ UNCHANGED legacy

FaultDelete ==
    /\ \E i \in 1..MaxFaultRows : DeleteFile(GoodCsrf, i)
    /\ UNCHANGED legacy

NextFault == FaultUpload \/ FaultDelete

SpecFault == Init /\ [][NextFault]_vars

----------------------------------------------------------------------------
(* SpecAuth: one request at a time from a client that starts without a     *)
(* session: pages, logins, logouts, uploads and deletes with any token.    *)

\* rows the catalog may ever hold where tokens and logins are explored
MaxAuthRows == 1

\* the limiter keys (client addresses) of the model
IPs == {<<"i", "1">>}

\* the password fields a client may send
Passwords == {<<>>, ADMIN_PASSWORD, <<"n", "o">>}

\* the "ids" form fields sent where tokens and logins are explored
AuthBulkInputs == {<<>>, <<ToText(1)>>, <<ToText(2), ToText(1)>>}

InitAuth ==
    /\ InitStore
    /\ session = [is_admin |-> FALSE, csrf_token |-> <<>>]

AuthPage ==
    /\ \E t \in Tokens : RenderPage(t)
    /\ UNCHANGED legacy

AuthLogin ==
    /\ \E c \in CsrfInputs, ip \in IPs, pw \in Passwords : AdminLoginPost(c, ip, pw)
    /\ UNCHANGED legacy

AuthUpload ==
    /\ lastrowid < MaxAuthRows
    /\ \E c \in CsrfInputs : Upload(UploadReq(c, <<TRUE, Name_a_t, BytesA>>), "none")
    /\ UNCHANGED legacy

AuthDelete ==
    /\ \E c \in CsrfInputs, i \in 1..MaxAuthRows : DeleteFile(c, i)
    /\ UNCHANGED legacy

AuthBulkDelete ==
    /\ \E c \in CsrfInputs, ids \in AuthBulkInputs : BulkDelete(c, ids)
    /\ UNCHANGED legacy

NextAuth ==
    \/ AuthPage
    \/ AuthLogin
    \/ AdminLogout /\ UNCHANGED legacy
    \/ AuthUpload
    \/ AuthDelete
    \/ AuthBulkDelete
    \/ Tick /\ UNCHANGED legacy

SpecAuth == InitAuth /\ [][NextAuth]_vars

----------------------------------------------------------------------------
(* SpecCrafted: as SpecBulk with downloads, started on a catalog file that *)
(* holds a row whose stored_relpath was not written by store_file.         *)

\* downloads counted per row
MaxDownloads == 1

\* "../k/s": a path that leaves the storage root
CraftedRelPath == <<".", ".", "/", "k", "/", "s">>

CraftedRow ==
    [filename_original |-> Name_a_t,
     stored_relpath |-> CraftedRelPath,
     size |-> 1,
     sha256 |-> <<"d", "b", "0">>,
     uploaded_at |-> 0,
     download_count |-> 0]

\* the file and the directory that path names, beside the storage root
OutsideFile == <<<<"k">>, <<"s">>>>
OutsideDir == <<<<"k">>>>

InitCrafted ==
    /\ legacy = LegacyInit
    /\ files = (1 :> CraftedRow)
    /\ lastrowid = 1
    /\ disk = (OutsideFile :> <<9>>)
    /\ dirs = {UPLOAD_DIR, OutsideDir}
    /\ buckets = <<>>
    /\ now = 0
    /\ last = NoResponse
    /\ pc = [w \in Workers |-> "idle"]
    /\ loc = [w \in Workers |-> NoLoc]
    /\ \E t \in Tokens : session = [is_admin |-> TRUE, csrf_token |-> t]

CraftedUpload ==
    /\ lastrowid < MaxBulkRows + 1
    /\ \E u \in FewUploadInputs : Upload(UploadReq(GoodCsrf, u), "none")
    /\ UNCHANGED legacy

CraftedDownload ==
    \E i \in 1..(MaxBulkRows + 1) :
        /\ i \in DOMAIN files => files[i].download_count < MaxDownloads
        /\ Download(i)
        /\ UNCHANGED legacy

CraftedRaw ==
    /\ \E i \in 1..(MaxBulkRows + 1) : Raw(i)
    /\ UNCHANGED legacy

CraftedDelete ==
    /\ \E i \in 1..(MaxBulkRows + 1) : DeleteFile(GoodCsrf, i)
    /\ UNCHANGED legacy

CraftedBulkDelete ==
    /\ \E ids \in BulkInputs(MaxBulkRows) : BulkDelete(GoodCsrf, ids)
    /\ UNCHANGED legacy

NextCrafted ==
    \/ CraftedUpload
    \/ CraftedDownload
    \/ CraftedRaw
    \/ CraftedDelete
    \/ CraftedBulkDelete

SpecCrafted == InitCrafted /\ [][NextCrafted]_vars

----------------------------------------------------------------------------
(* SpecConc: requests handled by concurrent workers, each handler taken    *)
(* apart into its calls: an upload hashes, makes the directory, writes the *)
(* blob and inserts the row; a single delete looks the row up, deletes it, *)
(* counts the rows of the digest, unlinks the blob and removes the         *)
(* directory.  Each call is one step; steps of different workers           *)
(* interleave freely.                                                      *)

\* rows the catalog may ever hold where requests run concurrently
MaxConcRows == 2

\* the bodies uploaded where requests run concurrently
ConcUploadInputs == {<<TRUE, Name_a_t, BytesA>>, <<TRUE, Name_a_t, BytesB>>}

\* what a worker keeps of a request that ended
Done(kind, status, file_id) ==
    [op |-> "done", kind |-> kind, status |-> status, file_id |-> file_id]

\* worker w ends its request
Finish(w, kind, status, file_id) ==
    /\ pc' = [pc EXCEPT ![w] = "idle"]
    /\ loc' = [loc EXCEPT ![w] = Done(kind, status, file_id)]

\* worker w goes on to the call at label
Goto(w, label, locals) ==
    /\ pc' = [pc EXCEPT ![w] = label]
    /\ loc' = [loc EXCEPT ![w] = locals]

\* uploads that were begun and have not yet inserted or failed
UploadsInFlight == Cardinality({w \in Workers : pc[w] \in {"mkdir", "save", "insert"}})

\* upload(), lines 97-103 and the hashing of store_file (lines 34-41)
UploadBegin(w, req) ==
    /\ pc[w] = "idle"
    /\ IF \/ ~validate_csrf_from_request(req, session)
          \/ ~req.has_file
          \/ req.filename = <<>>
       THEN Finish(w, "upload", 400, 0)
       ELSE Goto(w, "mkdir",
                 [op |-> "upload", data |-> req.data,
                  plan |-> store_plan([data |-> req.data, pos |-> 0],
                                      secure_filename(req.filename))])
    /\ UNCHANGED <<files, lastrowid, disk, dirs, session, buckets, now, last>>

\* store_file, lines 42-43: abs_dir.mkdir(parents=True, exist_ok=True)
UploadMkdir(w) ==
    /\ pc[w] = "mkdir"
    /\ dirs' = Mkdir(dirs, loc[w].plan.abs_dir)
    /\ Goto(w, "save", loc[w])
    /\ UNCHANGED <<files, lastrowid, disk, session, buckets, now, last>>

\* the request's locals when store_file returns: meta carries the time of
\* line 56, read after the write
Stamped(locals) == [locals EXCEPT !.plan.meta.uploaded_at = now]

\* store_file, lines 46-58: file_storage.save(abs_path), then meta; open()
\* raises when the directory is gone
UploadSave(w) ==
    /\ pc[w] = "save"
    /\ IF loc[w].plan.abs_dir \in dirs
       THEN /\ disk' = Save(disk, loc[w].plan.abs_path,
                            [data |-> loc[w].data, pos |-> loc[w].plan.pos],
                            loc[w].plan.pos)
            /\ Goto(w, "insert", Stamped(loc[w]))
       ELSE /\ UNCHANGED disk
            /\ Finish(w, "upload", 500, 0)
    /\ UNCHANGED <<files, lastrowid, dirs, session, buckets, now, last>>

\* upload(), line 105: insert_file_record(meta)
UploadInsert(w) ==
    /\ pc[w] = "insert"
    /\ LET ins == insert_file_record(files, lastrowid, loc[w].plan.meta)
       IN /\ files' = ins.files
          /\ lastrowid' = ins.lastrowid
          /\ Finish(w, "upload", 302, ins.lastrowid)
    /\ UNCHANGED <<disk, dirs, session, buckets, now, last>>

\* delete_file(), lines 151-155: the guards and get_file
DeleteBegin(w, req, file_id) ==
    /\ pc[w] = "idle"
    /\ IF ~is_admin(session) THEN Finish(w, "delete", 403, file_id)
       ELSE IF ~validate_csrf_from_request(req, session)
       THEN Finish(w, "delete", 400, file_id)
       ELSE IF file_id \notin DOMAIN files THEN Finish(w, "delete", 404, file_id)
       ELSE Goto(w, "delrow",
                 [op |-> "delete", file_id |-> file_id, row |-> files[file_id]])
    /\ UNCHANGED <<files, lastrowid, disk, dirs, session, buckets, now, last>>

\* delete_file(), lines 157-162: DELETE and commit
DeleteRowStep(w) ==
    /\ pc[w] = "delrow"
    /\ files' = delete_row(files, loc[w].file_id)
    /\ Goto(w, "count", loc[w])
    /\ UNCHANGED <<lastrowid, disk, dirs, session, buckets, now, last>>

\* delete_blob_if_unreferenced, lines 65-73: the count and its test
DeleteCount(w) ==
    /\ pc[w] = "count"
    /\ IF count_by_sha256(files, loc[w].row.sha256) = 0
       THEN Goto(w, "unlink", loc[w])
       ELSE Finish(w, "delete", 302, loc[w].file_id)
    /\ UNCHANGED <<files, lastrowid, disk, dirs, session, buckets, now, last>>

\* delete_blob_if_unreferenced, line 76: abs_path.unlink(missing_ok=True)
DeleteUnlink(w) ==
    /\ pc[w] = "unlink"
    /\ LET fs1 == unlink_blob(FS, loc[w].row.stored_relpath)
       IN /\ disk' = fs1.disk
          /\ IF fs1.raised
             THEN Finish(w, "delete", 302, loc[w].file_id)
             ELSE Goto(w, "rmdir", loc[w])
    /\ UNCHANGED <<files, lastrowid, dirs, session, buckets, now, last>>

\* delete_blob_if_unreferenced, line 78: abs_path.parent.rmdir()
DeleteRmdir(w) ==
    /\ pc[w] = "rmdir"
    /\ dirs' = rmdir_parent(FS, loc[w].row.stored_relpath).dirs
    /\ Finish(w, "delete", 302, loc[w].file_id)
    /\ UNCHANGED <<files, lastrowid, disk, session, buckets, now, last>>

ConcUploadBegin ==
    /\ lastrowid + UploadsInFlight < MaxConcRows
    /\ \E w \in Workers, u \in ConcUploadInputs : UploadBegin(w, UploadReq(GoodCsrf, u))
    /\ UNCHANGED legacy

ConcDeleteBegin ==
    /\ \E w \in Workers, i \in 1..MaxConcRows : DeleteBegin(w, GoodCsrf, i)
    /\ UNCHANGED legacy

NextConc ==
    \/ ConcUploadBegin
    \/ ConcDeleteBegin
    \/ \E w \in Workers : UploadMkdir(w) /\ UNCHANGED legacy
    \/ \E w \in Workers : UploadSave(w) /\ UNCHANGED legacy
    \/ \E w \in Workers : UploadInsert(w) /\ UNCHANGED legacy
    \/ \E w \in Workers : DeleteRowStep(w) /\ UNCHANGED legacy
    \/ \E w \in Workers : DeleteCount(w) /\ UNCHANGED legacy
    \/ \E w \in Workers : DeleteUnlink(w) /\ UNCHANGED legacy
    \/ \E w \in Workers : DeleteRmdir(w) /\ UNCHANGED legacy

SpecConc == Init /\ [][NextConc]_vars

----------------------------------------------------------------------------
(* Properties *)

\* the rows of catalog f that hold digest d
RowsBySha(f, d) == {i \in DOMAIN f : f[i].sha256 = d}

\* the rows of catalog f stored at the file p
RowsAt(f, p) == {i \in DOMAIN f : blob_path(f[i].stored_relpath) = p}

\* how often x occurs in sequence q
Occurrences(q, x) == Cardinality({k \in 1..Len(q) : q[k] = x})

\* the blob files below the storage root
Blobs(dk) == {p \in DOMAIN dk : InsideRoot(p)}

\* C1: a single delete of a row whose digest is shared only by rows with the
\* same stored path leaves the blob file in place while another such row
\* remains, and removes the blob file when the row was the last one.
C1_RefCountedDelete ==
    [][(/\ last'.op = "delete"
        /\ last'.status = 302
        /\ last'.file_id \in DOMAIN files
        /\ last'.file_id \notin DOMAIN files')
       => LET row == files[last'.file_id]
              p == blob_path(row.stored_relpath)
              sharing == RowsBySha(files, row.sha256)
          IN (\A i \in sharing : files[i].stored_relpath = row.stored_relpath)
             => /\ p \in DOMAIN disk
                /\ Cardinality(sharing) > 1 => p \in DOMAIN disk'
                /\ Cardinality(sharing) = 1 => p \notin DOMAIN disk'
      ]_vars

\* C1 witness: three uploads, two rows deleted one by one, and the last
\* delete left the one blob on disk because the remaining row shares it
C1_Witness ==
    /\ last.op = "delete"
    /\ last.status = 302
    /\ last.removed = <<>>
    /\ lastrowid = 3
    /\ Cardinality(DOMAIN files) = 1
    /\ Cardinality(DOMAIN disk) = 1

\* C2: under concurrent uploads and deletes every live row's stored path
\* names a blob file that exists.
C2_NoDanglingRecord ==
    \A i \in DOMAIN files : blob_path(files[i].stored_relpath) \in DOMAIN disk

\* C3: between requests, every blob file below the storage root is the
\* stored path of some live row.
C3_NoOrphanBlob ==
    \A p \in Blobs(disk) : RowsAt(files, p) # {}

\* C4: a bulk delete that removes every row of a digest removes each blob
\* of those rows exactly once, and the blob is gone when the call returns.
C4_BulkRemovesOnce ==
    [][(last'.op = "bulk" /\ last'.status = 302 /\ files' # files)
       => \A i \in DOMAIN files :
             RowsBySha(files', files[i].sha256) = {}
             => LET p == blob_path(files[i].stored_relpath)
                IN /\ p \in DOMAIN disk
                   /\ p \notin DOMAIN disk'
                   /\ Occurrences(last'.removed, p) = 1
      ]_vars

\* C4 witness: one bulk delete removed two rows that shared one blob, with
\* one file removal
C4_Witness ==
    /\ last.op = "bulk"
    /\ last.count = 2
    /\ Len(last.removed) = 1
    /\ files = <<>>
    /\ Blobs(disk) = {}

\* C5: live rows with equal digest and equal extension have distinct ids,
\* equal stored paths, and the storage root holds exactly one file for that
\* digest and extension, which is the one they name.
C5_IdempotentDedup ==
    \A i, j \in DOMAIN files :
        (/\ i # j
         /\ files[i].sha256 = files[j].sha256
         /\ splitext_ext(files[i].filename_original)
              = splitext_ext(files[j].filename_original))
        => /\ files[i].stored_relpath = files[j].stored_relpath
           /\ {p \in Blobs(disk) :
                 Name(p) = files[i].sha256 \o splitext_ext(files[i].filename_original)}
              = {blob_path(files[i].stored_relpath)}

\* C5 witness: the same bytes live twice under different names of one extension
C5_Witness ==
    \E i, j \in DOMAIN files :
        /\ i # j
        /\ files[i].sha256 = files[j].sha256
        /\ files[i].filename_original = Name_a_t
        /\ files[j].filename_original = Name_b_t

\* C6: a download, raw or delete request for the row whose stored path
\* leaves the storage root is refused, and no file outside the root is read
\* or unlinked and no directory outside it removed.
C6_PathSafety ==
    /\ (last.op \in {"download", "raw", "delete"} /\ last.file_id = 1)
       => last.status \in {400, 403, 404}
    /\ last.served # <<>> => InsideRoot(last.served)
    /\ \A k \in 1..Len(last.removed) : InsideRoot(last.removed[k])
    /\ \A k \in 1..Len(last.rmdirs) : InsideRoot(last.rmdirs[k])

\* C7: a delete or bulk delete from a session that is not an administrator
\* is refused with 403 and changes neither catalog nor store.
C7_AuthorizationGuard ==
    [][(last'.op \in {"delete", "bulk"} /\ ~session.is_admin)
       => /\ last'.status = 403
          /\ UNCHANGED <<files, lastrowid, disk, dirs>>
      ]_vars

\* C7 witness: a delete with the session's token, refused for lack of the
\* administrator flag while rows were there to delete
C7_Witness ==
    /\ last.op \in {"delete", "bulk"}
    /\ last.status = 403
    /\ last.token_ok
    /\ files # <<>>

\* C8: an upload, delete, bulk delete or login that does not present its
\* session's token is rejected, and changes no row, no file, no session flag
\* and no limiter bucket.
C8_AntiForgeryGuard ==
    [][(last'.op \in {"upload", "delete", "bulk", "login"} /\ ~last'.token_ok)
       => /\ last'.status \in {400, 403}
          /\ UNCHANGED <<files, lastrowid, disk, dirs, session, buckets>>
      ]_vars

\* C8 witness: a login without the session's token, rejected
C8_Witness ==
    /\ last.op = "login"
    /\ ~last.token_ok
    /\ last.status = 400
    /\ session.csrf_token # <<>>

\* C9: an upload whose sanitized file name is empty is rejected with 400,
\* and no row carries an empty name.
C9_EmptyNameRejected ==
    /\ (last.op = "upload" /\ last.filename = <<>>) => last.status = 400
    /\ \A i \in DOMAIN files : files[i].filename_original # <<>>

\* C10: an upload whose directory creation or blob write raises fails, and
\* the catalog is as before.
C10_UploadAbortsOnStorageFault ==
    [][(last'.op = "upload" /\ last'.fault \in {"mkdir", "save"})
       => /\ last'.status = 500
          /\ UNCHANGED <<files, lastrowid>>
      ]_vars

\* C10 witness: an upload failed in the blob write, with rows in the catalog
C10_Witness ==
    /\ last.op = "upload"
    /\ last.fault = "save"
    /\ last.status = 500
    /\ files # <<>>

\* C11: an upload whose blob write did not fail ends with a blob for every
\* row it inserted, and with a live row for every blob file it newly wrote.
C11_NoPartialCommit ==
    [][(last'.op = "upload" /\ last'.fault \in {"none", "insert"})
       => /\ \A i \in DOMAIN files' \ DOMAIN files :
                blob_path(files'[i].stored_relpath) \in DOMAIN disk'
          /\ \A p \in DOMAIN disk' \ DOMAIN disk : RowsAt(files', p) # {}
      ]_vars

\* whether a is a proper prefix of b
IsProperPrefix(a, b) == Len(a) < Len(b) /\ a = SubSeq(b, 1, Len(a))

\* the contents whose digest names the blob file p
ContentsNamedBy(p) ==
    {c \in {BytesA, BytesB} :
        /\ Len(Name(p)) >= Len(Sha256Hex(c))
        /\ SubSeq(Name(p), 1, Len(Sha256Hex(c))) = Sha256Hex(c)}

\* C12: between requests, no blob file holds only a proper prefix of the
\* content its name is the digest of, whether a write failed or not.
C12_NoPartialBlob ==
    \A p \in Blobs(disk) :
        \A c \in ContentsNamedBy(p) : ~IsProperPrefix(disk[p], c)

----------------------------------------------------------------------------
(* SpecWrite: as SpecConc without deletes, the blob write of store_file    *)
(* taken apart into the open of the destination, which truncates it, and   *)
(* the chunk writes of the copy, each at the writer's own file offset;     *)
(* downloads read the blob of a live row while uploads are under way.      *)

\* bytes of one write of the copy; werkzeug's FileStorage.save copies
\* 16384 at a time
WriteChunk == 2

\* uploads that were begun and have not yet inserted
WritesInFlight ==
    Cardinality({w \in Workers : pc[w] \in {"mkdir", "save", "write", "insert"}})

\* file_storage.save, the open: dst = open(abs_path, "wb") creates the file
\* or truncates it to length 0
SaveOpen(w) ==
    /\ pc[w] = "save"
    /\ disk' = With(disk, loc[w].plan.abs_path, <<>>)
    /\ Goto(w, "write", [op |-> "upload", data |-> loc[w].data,
                         plan |-> loc[w].plan, offset |-> 0])
    /\ UNCHANGED <<files, lastrowid, dirs, session, buckets, now, last>>

\* a write of chunk at offset into a file that holds old: bytes before the
\* offset stay (a gap reads as zeros), the chunk replaces what it covers
WriteAt(old, offset, chunk) ==
    [k \in 1..(IF Len(old) > offset + Len(chunk) THEN Len(old) ELSE offset + Len(chunk)) |->
        IF k > offset /\ k <= offset + Len(chunk) THEN chunk[k - offset]
        ELSE IF k <= Len(old) THEN old[k]
        ELSE 0]

\* file_storage.save, the copy: one read of the stream and one write to the
\* destination; after the last chunk the file is closed and store_file returns
SaveWrite(w) ==
    /\ pc[w] = "write"
    /\ LET src == loc[w].plan.pos + loc[w].offset
           end == IF src + WriteChunk < Len(loc[w].data)
                  THEN src + WriteChunk ELSE Len(loc[w].data)
           chunk == SubSeq(loc[w].data, src + 1, end)
           path == loc[w].plan.abs_path
       IN /\ disk' = With(disk, path,
                          WriteAt(IF path \in DOMAIN disk THEN disk[path] ELSE <<>>,
                                  loc[w].offset, chunk))
          /\ IF end = Len(loc[w].data)
             THEN Goto(w, "insert", Stamped([op |-> "upload", data |-> loc[w].data,
                                             plan |-> loc[w].plan]))
             ELSE Goto(w, "write", [loc[w] EXCEPT !.offset = @ + Len(chunk)])
    /\ UNCHANGED <<files, lastrowid, dirs, session, buckets, now, last>>

\* download(file_id) by worker w: the row, the counter, and the body that
\* send_from_directory reads from the blob file at this moment
DownloadRead(w, file_id) ==
    /\ pc[w] = "idle"
    /\ IF file_id \notin DOMAIN files
       THEN /\ loc' = [loc EXCEPT ![w] = Done("download", 404, file_id)]
            /\ UNCHANGED files
       ELSE LET sent == send_row(disk, files[file_id])
            IN /\ files' = increment_download_count(files, file_id)
               /\ loc' = [loc EXCEPT ![w] =
                            [op |-> "done", kind |-> "download",
                             status |-> IF sent.ok THEN 200 ELSE 404,
                             file_id |-> file_id,
                             sha256 |-> files[file_id].sha256,
                             body |-> IF sent.ok THEN disk[sent.path] ELSE <<>>]]
    /\ UNCHANGED <<lastrowid, disk, dirs, session, buckets, now, last, pc>>

WriteUploadBegin ==
    /\ lastrowid + WritesInFlight < MaxConcRows
    /\ \E w \in Workers, u \in ConcUploadInputs : UploadBegin(w, UploadReq(GoodCsrf, u))
    /\ UNCHANGED legacy

WriteDownload ==
    \E w \in Workers, i \in 1..MaxConcRows :
        /\ i \in DOMAIN files => files[i].download_count < MaxDownloads
        /\ DownloadRead(w, i)
        /\ UNCHANGED legacy

NextWrite ==
    \/ WriteUploadBegin
    \/ WriteDownload
    \/ \E w \in Workers : UploadMkdir(w) /\ UNCHANGED legacy
    \/ \E w \in Workers : SaveOpen(w) /\ UNCHANGED legacy
    \/ \E w \in Workers : SaveWrite(w) /\ UNCHANGED legacy
    \/ \E w \in Workers : UploadInsert(w) /\ UNCHANGED legacy

SpecWrite == Init /\ [][NextWrite]_vars

\* C13: while uploads of the same bytes race on one blob path, every
\* download served for a live row returns the bytes of the row's digest, and
\* when no upload is under way every row's blob holds them.
C13_ConcurrentDuplicateUploads ==
    /\ \A w \in Workers :
          (loc[w].op = "done" /\ loc[w].kind = "download" /\ loc[w].status = 200)
          => Sha256Hex(loc[w].body) = loc[w].sha256
    /\ (\A w \in Workers : pc[w] = "idle")
       => \A i \in DOMAIN files :
             LET p == blob_path(files[i].stored_relpath)
             IN p \in DOMAIN disk /\ Sha256Hex(disk[p]) = files[i].sha256

\* C14: a successful upload of bytes b leaves exactly b in the file at the
\* new row's stored path, the row's size is the length of b, and the digest
\* in the row and in the file's name is the digest of b.
C14_RoundTrip ==
    [][\A u \in UploadInputs :
          (Upload(UploadReq(GoodCsrf, u), "none") /\ last'.status = 302)
          => LET row == files'[last'.file_id]
                 p == blob_path(row.stored_relpath)
             IN /\ last'.file_id \notin DOMAIN files
                /\ p \in DOMAIN disk'
                /\ disk'[p] = u[3]
                /\ row.size = Len(u[3])
                /\ row.sha256 = Sha256Hex(u[3])
                /\ SubSeq(Name(p), 1, Len(row.sha256)) = Sha256Hex(disk'[p])
      ]_vars

\* C14 witness: an upload of the three bytes of BytesA, hashed in two
\* chunks, succeeded and its blob holds them
C14_Witness ==
    /\ last.op = "upload"
    /\ last.status = 302
    /\ last.file_id \in DOMAIN files
    /\ files[last.file_id].size = Len(BytesA)
    /\ blob_path(files[last.file_id].stored_relpath) \in DOMAIN disk
    /\ disk[blob_path(files[last.file_id].stored_relpath)] = BytesA

----------------------------------------------------------------------------
(* SpecCount: as SpecConc, with downloads handled while no other request   *)
(* is under way.                                                           *)

CountDownload ==
    \E i \in 1..MaxConcRows :
        /\ i \in DOMAIN files => files[i].download_count < MaxDownloads
        /\ Download(i)
        /\ UNCHANGED legacy

NextCount == NextConc \/ CountDownload

SpecCount == Init /\ [][NextCount]_vars

\* a step that is a download request for row i answered with status
DownloadAnswered(i, status) ==
    /\ last'.op = "download"
    /\ last'.file_id = i
    /\ last'.status = status
    /\ UNCHANGED <<pc, loc, disk, dirs, lastrowid>>
    /\ DOMAIN files' = DOMAIN files

\* C15: a row starts with download count 0, and every step leaves a live
\* row's count as it was, except that a download of the row that served the
\* file adds one; a download of an id without a row changes no row.
C15_DownloadCounter ==
    [][/\ \A i \in DOMAIN files' \ DOMAIN files : files'[i].download_count = 0
       /\ \A i \in DOMAIN files \cap DOMAIN files' :
             files'[i].download_count
               = files[i].download_count + (IF DownloadAnswered(i, 200) THEN 1 ELSE 0)
       /\ (last'.op = "download" /\ last'.file_id \notin DOMAIN files
           /\ UNCHANGED <<pc, loc>>)
          => files' = files /\ last'.status = 404
      ]_vars

\* worker w has ended a delete request for row i with status
DeleteEnded(w, i, status) ==
    /\ loc[w].op = "done"
    /\ loc[w].kind = "delete"
    /\ loc[w].file_id = i
    /\ loc[w].status = status

\* C16: a delete request for an id without a row ends with 404 and changes
\* neither catalog nor store, and no two delete requests for one id both
\* end with success.
C16_DeleteReportsFaithfully ==
    [][/\ \A w \in Workers, i \in 1..MaxConcRows :
             (pc[w] = "idle" /\ pc'[w] = "idle" /\ loc'[w] # loc[w]
              /\ loc'[w].op = "done" /\ loc'[w].kind = "delete"
              /\ loc'[w].file_id = i /\ i \notin DOMAIN files
              /\ is_admin(session))
             => /\ loc'[w].status = 404
                /\ UNCHANGED <<files, lastrowid, disk, dirs>>
       /\ \A w1, w2 \in Workers, i \in 1..MaxConcRows :
             (w1 # w2 /\ DeleteEnded(w1, i, 302)')
             => ~DeleteEnded(w2, i, 302)'
      ]_vars

\* the row ids that occur as entries of the "ids" form field
IdsNamed(raw_ids) ==
    {i \in 1..(MaxId + 1) : \E k \in 1..Len(raw_ids) : raw_ids[k] = ToText(i)}

----------------------------------------------------------------------------
(* SpecSkip: as SpecBulk, with two bodies uploaded under one name *)

SkipUpload ==
    /\ lastrowid < MaxBulkRows
    /\ \E u \in ConcUploadInputs : Upload(UploadReq(GoodCsrf, u), "none")
    /\ UNCHANGED legacy

NextSkip == SkipUpload \/ BulkDeleteOne \/ DoBulkDelete

SpecSkip == Init /\ [][NextSkip]_vars

\* C17: a bulk delete removes exactly the live rows whose ids occur in its
\* list, leaves every other row as it was, and counts the rows it removed:
\* whatever the list, a step has this outcome or is not the bulk delete of
\* that list.
C17_BulkSkipsAndCounts ==
    [][\A raw_ids \in BulkInputs(MaxBulkRows) :
          \/ /\ last'.status = 302
             /\ DOMAIN files' = DOMAIN files \ IdsNamed(raw_ids)
             /\ \A i \in DOMAIN files' : files'[i] = files[i]
             /\ last'.count = Cardinality(DOMAIN files \cap IdsNamed(raw_ids))
          \/ ~BulkDelete(GoodCsrf, raw_ids)
      ]_vars

\* C17 witness: a bulk delete counted one removed row and another row is
\* left
C17_Witness ==
    /\ last.op = "bulk"
    /\ last.count = 1
    /\ lastrowid = 2
    /\ Cardinality(DOMAIN files) = 1

----------------------------------------------------------------------------
(* SpecList: concurrent uploads while the clock runs, and the listing of   *)
(* the catalog.  uploaded_at is the clock reading in ticks, a tick being   *)
(* the resolution of datetime.now().isoformat().                           *)

\* ticks of the clock in one second
TicksPerSecond == 2

\* rows the catalog may ever hold where the listing is explored
MaxListRows == 2

\* sqlite's datetime(uploaded_at): the time as 'YYYY-MM-DD HH:MM:SS', the
\* fraction of the second dropped; here the number of the second
datetime(uploaded_at) == uploaded_at \div TicksPerSecond

\* ORDER BY datetime(uploaded_at) DESC, id DESC: row i comes before row j
OrderedBefore(f, i, j) ==
    \/ datetime(f[i].uploaded_at) > datetime(f[j].uploaded_at)
    \/ datetime(f[i].uploaded_at) = datetime(f[j].uploaded_at) /\ i > j

\* list_files(): the ids of all rows in the order of the SELECT
list_files(f) ==
    CHOOSE q \in [1..Cardinality(DOMAIN f) -> DOMAIN f] :
        \A a, b \in 1..Cardinality(DOMAIN f) : a < b => OrderedBefore(f, q[a], q[b])

ListUploadsInFlight ==
    Cardinality({w \in Workers : pc[w] \in {"mkdir", "save", "insert"}})

ListUploadBegin ==
    /\ lastrowid + ListUploadsInFlight < MaxListRows
    /\ \E w \in Workers, u \in ConcUploadInputs : UploadBegin(w, UploadReq(GoodCsrf, u))
    /\ UNCHANGED legacy

NextList ==
    \/ ListUploadBegin
    \/ \E w \in Workers : UploadMkdir(w) /\ UNCHANGED legacy
    \/ \E w \in Workers : UploadSave(w) /\ UNCHANGED legacy
    \/ \E w \in Workers : UploadInsert(w) /\ UNCHANGED legacy
    \/ Tick /\ UNCHANGED legacy

SpecList == Init /\ [][NextList]_vars

\* C18: the listing holds every live row once, rows uploaded later come
\* first, and of rows with equal upload time the higher id comes first.
C18_ListOrdering ==
    LET q == list_files(files)
        n == Cardinality(DOMAIN files)
    IN /\ Len(q) = n
       /\ {q[k] : k \in 1..n} = DOMAIN files
       /\ \A a, b \in 1..n :
             a < b
             => \/ files[q[a]].uploaded_at > files[q[b]].uploaded_at
                \/ /\ files[q[a]].uploaded_at = files[q[b]].uploaded_at
                   /\ q[a] > q[b]

----------------------------------------------------------------------------
(* SpecPair: the package and the single-file app of src/app.py handle the  *)
(* same requests of one administrator, one request at a time, each on its  *)
(* own table and its own files.  The single-file app's handlers are        *)
(* operators on its state L = [files, lastrowid, disk, dirs, status].      *)

\* rows the package's catalog may ever hold where the two apps run side by side
MaxPairRows == 2

\* app.py require_csrf passes: the session has a token, the request has
\* one, they are equal
require_csrf(req, sess) ==
    /\ sess.csrf_token # <<>>
    /\ csrf_from_request(req) # <<>>
    /\ csrf_from_request(req) = sess.csrf_token

\* Path(name).suffix: the text from the last dot on, unless the dot is the
\* first or the last character
path_suffix(name) ==
    LET dot == RFind(name, ".") IN
    IF dot > 1 /\ dot < Len(name) THEN SubSeq(name, dot, Len(name)) ELSE <<>>

\* app.py _hash_fileobj: seek(0), then digest and size of the whole stream
legacy_hash_fileobj(data) ==
    LET r == HashLoop(data, 0, <<>>, 0)
    IN [sha256 |-> Sha256Hex(r.fed), size |-> r.size]

\* os.path.relpath(stored_path, BASE_DIR) for a path below BASE_DIR
RECURSIVE relpath(_)
relpath(p) ==
    IF Len(p) = 1 THEN p[1] ELSE path_join(p[1], relpath(Tail(p)))

\* the file (BASE_DIR / relpath).resolve() names
legacy_abs_path(rel) == Resolve(PathParts(rel, <<>>), <<>>)

\* str(abs_path).startswith(str(BASE_DIR))
UnderBaseDir(p) == p = <<>> \/ p[1] # DotDot

\* the answer of the single-file app, its state otherwise as it was
LegacyAnswer(L, status) == [L EXCEPT !.status = status]

\* app.py upload()
legacy_upload(L, req, sess) ==
    IF ~require_csrf(req, sess) THEN LegacyAnswer(L, 403)
    ELSE IF ~req.has_file THEN LegacyAnswer(L, 400)
    ELSE IF req.filename = <<>> THEN LegacyAnswer(L, 400)
    ELSE
      LET original_name == secure_filename(req.filename) IN
      IF original_name = <<>> THEN LegacyAnswer(L, 400)
      ELSE
        LET h == legacy_hash_fileobj(req.data)
            subdir == UPLOAD_DIR \o <<SubSeq(h.sha256, 1, 2)>>
            stored_path == subdir \o <<h.sha256 \o path_suffix(original_name)>>
            meta == [filename_original |-> original_name,
                     stored_relpath |-> Replace(relpath(stored_path), "\\", "/"),
                     size |-> h.size,
                     sha256 |-> h.sha256,
                     uploaded_at |-> now,
                     download_count |-> 0]
            ins == insert_file_record(L.files, L.lastrowid, meta)
        IN [files |-> ins.files,
            lastrowid |-> ins.lastrowid,
            disk |-> With(L.disk, stored_path, req.data),
            dirs |-> Mkdir(L.dirs, subdir),
            status |-> 302]

\* SELECT COUNT(*) FROM files WHERE stored_relpath = ?
count_by_relpath(f, rel) ==
    Cardinality({i \in DOMAIN f : f[i].stored_relpath = rel})

\* app.py delete_file_and_blob_if_unused(file_id): the state after it, and
\* whether a row was found
delete_file_and_blob_if_unused(L, file_id) ==
    IF file_id \notin DOMAIN L.files THEN [L |-> L, ok |-> FALSE]
    ELSE
      LET rel == L.files[file_id].stored_relpath
          ref_count == count_by_relpath(L.files, rel)
          abs_path == legacy_abs_path(rel)
          L1 == [L EXCEPT !.files = delete_row(L.files, file_id)]
          parent == Parent(abs_path)
          disk2 == Without(L1.disk, abs_path)
          empty == \A q \in (DOMAIN disk2) \cup L1.dirs : q = <<>> \/ Parent(q) # parent
      IN IF rel # <<>> /\ ref_count <= 1
            /\ abs_path \in DOMAIN L1.disk /\ UnderBaseDir(abs_path)
         THEN [L |-> [L1 EXCEPT !.disk = disk2,
                                !.dirs = IF parent \in L1.dirs /\ empty
                                         THEN L1.dirs \ {parent} ELSE L1.dirs],
               ok |-> TRUE]
         ELSE [L |-> L1, ok |-> TRUE]

\* app.py delete_file(file_id)
legacy_delete_file(L, req, sess, file_id) ==
    IF ~sess.is_admin THEN LegacyAnswer(L, 403)
    ELSE IF ~require_csrf(req, sess) THEN LegacyAnswer(L, 403)
    ELSE LET r == delete_file_and_blob_if_unused(L, file_id)
         IN LegacyAnswer(r.L, IF r.ok THEN 302 ELSE 404)

\* the loop of app.py bulk_delete over the "ids" form field
RECURSIVE legacy_bulk_loop(_, _)
legacy_bulk_loop(L, raw_ids) ==
    IF raw_ids = <<>> THEN L
    ELSE LET fid == ParseInt(Head(raw_ids))
         IN legacy_bulk_loop(IF fid >= 0
                             THEN delete_file_and_blob_if_unused(L, fid).L
                             ELSE L,
                             Tail(raw_ids))

\* app.py bulk_delete()
legacy_bulk_delete(L, req, sess, raw_ids) ==
    IF ~sess.is_admin THEN LegacyAnswer(L, 403)
    ELSE IF ~require_csrf(req, sess) THEN LegacyAnswer(L, 403)
    ELSE LegacyAnswer(legacy_bulk_loop(L, raw_ids), 302)

PairUpload ==
    /\ lastrowid < MaxPairRows
    /\ \E u \in UploadInputs :
          /\ Upload(UploadReq(GoodCsrf, u), "none")
          /\ legacy' = legacy_upload(legacy, UploadReq(GoodCsrf, u), session)

PairDelete ==
    \E i \in 1..MaxPairRows :
        /\ DeleteFile(GoodCsrf, i)
        /\ legacy' = legacy_delete_file(legacy, GoodCsrf, session, i)

PairBulkDelete ==
    \E ids \in BulkInputs(MaxPairRows) :
        /\ BulkDelete(GoodCsrf, ids)
        /\ legacy' = legacy_bulk_delete(legacy, GoodCsrf, session, ids)

NextPair == PairUpload \/ PairDelete \/ PairBulkDelete

SpecPair == Init /\ [][NextPair]_vars

\* the live rows of catalog f by file name and digest
RecordsOf(f) == {<<f[i].filename_original, f[i].sha256>> : i \in DOMAIN f}

\* whether a status accepts the request
Accepted(status) == status >= 200 /\ status < 400

\* C19: after every request handled by both, the package and the
\* single-file app hold the same live rows by file name and digest and the
\* same blob files, and both accepted the request or both rejected it.
C19_PackageLegacyEquivalence ==
    /\ RecordsOf(files) = RecordsOf(legacy.files)
    /\ DOMAIN disk = DOMAIN legacy.disk
    /\ last.op # "none" => (Accepted(last.status) <=> Accepted(legacy.status))

----------------------------------------------------------------------------
(* SpecOrder: bulk deletes handled by concurrent workers, bulk_delete      *)
(* taken apart into its statements: each turn of the loop of lines 184-191 *)
(* (SELECT, then DELETE on the same connection), the commit of line 192,   *)
(* and for each row found the count and the unlink of                      *)
(* delete_blob_if_unreferenced.  A connection's DELETEs stay in its        *)
(* transaction until it commits: `files` is the committed table, which     *)
(* every other connection reads.                                           *)

\* rows the catalog may ever hold where bulk deletes are taken apart
MaxOrderRows == 2

\* a variant that handles a row's blob before it goes on with the loop of
\* lines 184-191
bulk_next_blob_first(locals) ==
    IF locals.r < Len(locals.rows) THEN "bulk_count"
    ELSE IF locals.ids # <<>> THEN "bulk_rows"
    ELSE IF ~locals.committed THEN "bulk_commit"
    ELSE "idle"

\* the statement of bulk_delete a request with these locals runs next:
\* the loop over ids, then the commit, then the loop over rows
bulk_next(locals) ==
    IF locals.ids # <<>> THEN "bulk_rows"
    ELSE IF ~locals.committed THEN "bulk_commit"
    ELSE IF locals.r < Len(locals.rows) THEN "bulk_count"
    ELSE "idle"

\* worker w goes on with bulk_delete, or ends it with the redirect
BulkGoto(w, locals) ==
    IF bulk_next(locals) = "idle"
    THEN Finish(w, "bulk", 302, 0)
    ELSE Goto(w, bulk_next(locals), locals)

\* rows some connection other than w's has deleted and not yet committed:
\* that connection holds the database's write lock
LockedByOther(w) ==
    \E v \in Workers \ {w} :
        pc[v] \in {"bulk_rows", "bulk_commit"} /\ loc[v].pending # {}

\* the table as w's connection sees it: the committed rows without the rows
\* it has deleted itself
OwnView(w) == [i \in DOMAIN files \ loc[w].pending |-> files[i]]

\* bulk_delete(), lines 169-182: the guards, the parsing of the ids, the
\* connection
BulkBegin(w, req, raw_ids) ==
    /\ pc[w] = "idle"
    /\ IF ~is_admin(session) THEN Finish(w, "bulk", 403, 0)
       ELSE IF ~validate_csrf_from_request(req, session) THEN Finish(w, "bulk", 400, 0)
       ELSE IF ParseIds(raw_ids) = <<>> THEN Finish(w, "bulk", 302, 0)
       ELSE Goto(w, "bulk_rows",
                 [op |-> "bulk", ids |-> ParseIds(raw_ids), rows |-> <<>>,
                  pending |-> {}, committed |-> FALSE, r |-> 0, count |-> 0])
    /\ UNCHANGED <<files, lastrowid, disk, dirs, session, buckets, now, last>>

\* one turn of the loop of lines 184-191: SELECT the row of the next id;
\* if there is one, keep it and DELETE it.  The DELETE needs the write
\* lock: while another connection holds it, sqlite raises "database is
\* locked" when its wait runs out, the connection is closed without a
\* commit and the request fails
BulkRowsStep(w) ==
    /\ pc[w] = "bulk_rows"
    /\ LET fid == Head(loc[w].ids)
           rest == [loc[w] EXCEPT !.ids = Tail(@)]
       IN IF fid \notin DOMAIN OwnView(w) THEN BulkGoto(w, rest)
          ELSE IF LockedByOther(w) THEN Finish(w, "bulk", 500, 0)
          ELSE BulkGoto(w, [rest EXCEPT
                               !.rows = Append(@, [id |-> fid,
                                                   sha256 |-> files[fid].sha256,
                                                   stored_relpath |-> files[fid].stored_relpath]),
                               !.pending = @ \cup {fid}])
    /\ UNCHANGED <<files, lastrowid, disk, dirs, session, buckets, now, last>>

\* line 192: conn.commit()
BulkCommit(w) ==
    /\ pc[w] = "bulk_commit"
    /\ files' = OwnView(w)
    /\ BulkGoto(w, [loc[w] EXCEPT !.pending = {}, !.committed = TRUE])
    /\ UNCHANGED <<lastrowid, disk, dirs, session, buckets, now, last>>

\* delete_blob_if_unreferenced for the next row of the loop of line 195,
\* lines 65-71: the count, on a connection of its own
BulkCount(w) ==
    /\ pc[w] = "bulk_count"
    /\ Goto(w, "bulk_unlink",
            [loc[w] EXCEPT !.count = count_by_sha256(files, loc[w].rows[loc[w].r + 1].sha256)])
    /\ UNCHANGED <<files, lastrowid, disk, dirs, session, buckets, now, last>>

\* delete_blob_if_unreferenced for that row, lines 73-80: unlink and rmdir
\* if the count was 0
BulkUnlink(w) ==
    /\ pc[w] = "bulk_unlink"
    /\ LET fs1 == IF loc[w].count = 0
                  THEN unlink_and_rmdir(FS, loc[w].rows[loc[w].r + 1].stored_relpath)
                  ELSE FS
       IN /\ disk' = fs1.disk
          /\ dirs' = fs1.dirs
    /\ BulkGoto(w, [loc[w] EXCEPT !.r = @ + 1])
    /\ UNCHANGED <<files, lastrowid, session, buckets, now, last>>

\* the bodies uploaded where bulk deletes are taken apart: the first row's
\* is BytesA, each later row's BytesA again or BytesB
OrderUploadInputs ==
    IF lastrowid = 0 THEN {<<TRUE, Name_a_t, BytesA>>} ELSE ConcUploadInputs

OrderUpload ==
    /\ lastrowid < MaxOrderRows
    /\ \E u \in OrderUploadInputs : Upload(UploadReq(GoodCsrf, u), "none")
    /\ UNCHANGED legacy

\* the "ids" form fields the page's checkboxes send
OrderBulkInputs ==
    UNION {[1..k -> {ToText(i) : i \in 1..MaxOrderRows}] : k \in 0..MaxBulk}

OrderBulkBegin ==
    /\ \E w \in Workers, ids \in OrderBulkInputs : BulkBegin(w, GoodCsrf, ids)
    /\ UNCHANGED legacy

NextOrder ==
    \/ OrderUpload
    \/ OrderBulkBegin
    \/ \E w \in Workers : BulkRowsStep(w) /\ UNCHANGED legacy
    \/ \E w \in Workers : BulkCommit(w) /\ UNCHANGED legacy
    \/ \E w \in Workers : BulkCount(w) /\ UNCHANGED legacy
    \/ \E w \in Workers : BulkUnlink(w) /\ UNCHANGED legacy

SpecOrder == Init /\ [][NextOrder]_vars

\* the labels of a bulk delete in flight
BulkLabels == {"bulk_rows", "bulk_commit", "bulk_count", "bulk_unlink"}

\* worker w takes this step
StepOf(w) == pc'[w] # pc[w] \/ loc'[w] # loc[w]

\* C20: within one bulk delete the committed catalog changes only at the
\* commit, where all rows of the batch go at once; every count of a
\* digest's rows is made after that commit, when no id of the request is
\* left to handle and no row of the batch is in the catalog; and no blob
\* file is removed before that commit.
C20_BulkDeleteOrdering ==
    [][\A w \in Workers :
          (pc[w] \in BulkLabels /\ StepOf(w)) =>
             /\ files' # files =>
                   /\ pc[w] = "bulk_commit"
                   /\ loc[w].ids = <<>>
                   /\ DOMAIN files' = DOMAIN files \ {loc[w].rows[k].id : k \in 1..Len(loc[w].rows)}
             /\ pc[w] = "bulk_count" =>
                   /\ loc[w].committed
                   /\ loc[w].ids = <<>>
                   /\ \A k \in 1..Len(loc[w].rows) : loc[w].rows[k].id \notin DOMAIN files
             /\ DOMAIN disk' # DOMAIN disk =>
                   /\ loc[w].committed
                   /\ \A k \in 1..Len(loc[w].rows) : loc[w].rows[k].id \notin DOMAIN files
      ]_vars

\* a bulk delete of two rows has committed, counted the rows of the first
\* row's digest, removed its blob, and is about to count for the second row
C20_Witness ==
    \E w \in Workers :
        /\ pc[w] = "bulk_count"
        /\ Len(loc[w].rows) = 2
        /\ loc[w].r = 1
        /\ loc[w].committed
        /\ blob_path(loc[w].rows[1].stored_relpath) \notin DOMAIN disk

----------------------------------------------------------------------------
(* SpecDeletes: single deletes handled by concurrent workers, call by      *)
(* call, while no upload is in flight: an upload is handled whole, between *)
(* the requests of the workers.                                            *)

DeletesUpload ==
    /\ lastrowid < MaxConcRows
    /\ \E u \in ConcUploadInputs : Upload(UploadReq(GoodCsrf, u), "none")
    /\ UNCHANGED legacy

NextDeletes ==
    \/ DeletesUpload
    \/ ConcDeleteBegin
    \/ \E w \in Workers : DeleteRowStep(w) /\ UNCHANGED legacy
    \/ \E w \in Workers : DeleteCount(w) /\ UNCHANGED legacy
    \/ \E w \in Workers : DeleteUnlink(w) /\ UNCHANGED legacy
    \/ \E w \in Workers : DeleteRmdir(w) /\ UNCHANGED legacy

SpecDeletes == Init /\ [][NextDeletes]_vars

\* the labels of a single delete that found its row
DeleteLabels == {"delrow", "count", "unlink", "rmdir"}

\* worker w has a single delete in flight for a row of this digest
DeletingDigest(w, sha256_hex) ==
    pc[w] \in DeleteLabels /\ loc[w].row.sha256 = sha256_hex

\* C21: where no upload is in flight, a single delete of a live row is not
\* refused and ends with the redirect and its row gone; and when it ends
\* with no row of its digest left and no other delete of that digest in
\* flight (it is the later of the deletes of the blob's last references),
\* the blob file is absent and so is the row of every other delete that
\* has ended.
C21_ConcurrentDeletesOfSharedBlob ==
    [][\A w \in Workers :
          /\ ~(/\ pc[w] = "idle" /\ pc'[w] = "idle" /\ loc'[w] # loc[w]
                /\ loc'[w].file_id \in DOMAIN files)
          /\ (pc[w] \in DeleteLabels /\ pc'[w] = "idle")
             => /\ loc'[w].status = 302
                /\ loc[w].file_id \notin DOMAIN files'
                /\ (/\ RowsBySha(files', loc[w].row.sha256) = {}
                    /\ \A v \in Workers \ {w} : ~DeletingDigest(v, loc[w].row.sha256))
                   => /\ blob_path(loc[w].row.stored_relpath) \notin DOMAIN disk'
                      /\ \A v \in Workers \ {w} :
                            (loc[v].op = "done" /\ loc[v].kind = "delete"
                               /\ loc[v].status = 302)
                            => loc[v].file_id \notin DOMAIN files'
      ]_vars

\* C21 witness: both workers have deleted the rows of the blob's last two
\* references, both have counted no row of the digest, and both are about
\* to unlink the same file
C21_Witness ==
    /\ pc["w1"] = "unlink"
    /\ pc["w2"] = "unlink"
    /\ loc["w1"].file_id # loc["w2"].file_id
    /\ loc["w1"].row.stored_relpath = loc["w2"].row.stored_relpath
    /\ blob_path(loc["w1"].row.stored_relpath) \in DOMAIN disk

----------------------------------------------------------------------------
(* SpecLimit: logins handled by concurrent workers, RateLimiter.check      *)
(* taken apart into its statements: the reading of the clock and of the    *)
(* key's deque, the prune loop, the test of the length, the append.  The   *)
(* limiter is one object of the process, shared by its threads.            *)

\* admin_login_post() up to line 41 of security.py: the token, then
\* now = time.time() and q = self.buckets[key]
CheckBegin(w, req, ip, password) ==
    /\ pc[w] = "idle"
    /\ IF ~validate_csrf_from_request(req, session)
       THEN /\ Finish(w, "login", 400, 0)
            /\ UNCHANGED buckets
       ELSE /\ buckets' = IF ip \in DOMAIN buckets THEN buckets ELSE With(buckets, ip, <<>>)
            /\ Goto(w, "prune", [op |-> "login", key |-> ip, t |-> now, password |-> password])
    /\ UNCHANGED <<files, lastrowid, disk, dirs, session, now, last>>

\* RateLimiter.check, lines 43-45: the prune loop, with the time read at
\* the start of the call
CheckPrune(w) ==
    /\ pc[w] = "prune"
    /\ buckets' = [buckets EXCEPT ![loc[w].key] = Prune(@, loc[w].t)]
    /\ Goto(w, "test", loc[w])
    /\ UNCHANGED <<files, lastrowid, disk, dirs, session, now, last>>

\* RateLimiter.check, lines 46-47, and abort(429) of admin_login_post
CheckTest(w) ==
    /\ pc[w] = "test"
    /\ IF Len(buckets[loc[w].key]) >= LimitAttempts
       THEN Finish(w, "login", 429, 0)
       ELSE Goto(w, "append", loc[w])
    /\ UNCHANGED <<files, lastrowid, disk, dirs, session, buckets, now, last>>

\* RateLimiter.check, lines 48-49, and the rest of admin_login_post
CheckAppend(w) ==
    /\ pc[w] = "append"
    /\ buckets' = [buckets EXCEPT ![loc[w].key] = Append(@, loc[w].t)]
    /\ session' = IF loc[w].password # <<>> /\ loc[w].password = ADMIN_PASSWORD
                  THEN [session EXCEPT !.is_admin = TRUE]
                  ELSE session
    /\ Finish(w, "login", 302, 0)
    /\ UNCHANGED <<files, lastrowid, disk, dirs, now, last>>

LimitLoginBegin ==
    /\ \E w \in Workers, ip \in IPs, pw \in Passwords : CheckBegin(w, GoodCsrf, ip, pw)
    /\ UNCHANGED legacy

NextLimit ==
    \/ LimitLoginBegin
    \/ \E w \in Workers : CheckPrune(w) /\ UNCHANGED legacy
    \/ \E w \in Workers : CheckTest(w) /\ UNCHANGED legacy
    \/ \E w \in Workers : CheckAppend(w) /\ UNCHANGED legacy
    \/ Tick /\ UNCHANGED legacy

SpecLimit == Init /\ [][NextLimit]_vars

\* the calls of check(key) that returned True at a time from t on and at
\* most LimitWindow later, as far as the key's deque still holds them
AllowedWithin(key, t) ==
    {k \in 1..Len(buckets[key]) : buckets[key][k] >= t /\ buckets[key][k] <= t + LimitWindow}

\* C22: for every key and every span of LimitWindow seconds, at most
\* LimitAttempts calls of check(key) return True.
C22_SlidingWindowLimit ==
    \A key \in DOMAIN buckets :
        \A t \in 0..MaxTime : Cardinality(AllowedWithin(key, t)) <= LimitAttempts

----------------------------------------------------------------------------
\* the labels of an upload in flight
UploadLabels == {"mkdir", "save", "insert"}

\* C23: among concurrent uploads and deletes, an upload that passed its
\* guards ends with the redirect, its row inserted and its blob on disk.
C23_CleanupKeepsUploads ==
    [][\A w \in Workers :
          (pc[w] \in UploadLabels /\ pc'[w] = "idle")
          => /\ loc'[w].status = 302
             /\ loc'[w].file_id \in DOMAIN files'
             /\ loc[w].plan.abs_path \in DOMAIN disk'
      ]_vars

----------------------------------------------------------------------------
(* Single deletes one after the other, as operators on the catalog f and   *)
(* the store fs, to set beside one bulk delete.                            *)

\* delete_file(file_id), lines 153-164: catalog and store after it; without
\* the row it aborts and changes nothing
delete_file_after(f, fs, file_id) ==
    IF file_id \notin DOMAIN f THEN [files |-> f, fs |-> fs]
    ELSE LET f1 == delete_row(f, file_id)
         IN [files |-> f1,
             fs |-> delete_blob_if_unreferenced(f1, fs, f[file_id].sha256,
                                                f[file_id].stored_relpath)]

\* delete_file for each id of ids in turn
RECURSIVE delete_each_after(_, _, _)
delete_each_after(f, fs, ids) ==
    IF ids = <<>> THEN [files |-> f, fs |-> fs]
    ELSE LET one == delete_file_after(f, fs, Head(ids))
         IN delete_each_after(one.files, one.fs, Tail(ids))

\* the orders in which the ids of a set of at most n rows can be named
IdOrders(n) ==
    {ids \in UNION {[1..k -> 1..n] : k \in 0..MaxBulk} :
        \A a, b \in 1..Len(ids) : a # b => ids[a] # ids[b]}

\* the "ids" form field that names ids
AsForm(ids) == [k \in 1..Len(ids) |-> ToText(ids[k])]

\* C24: a bulk delete over a set of ids leaves the rows and the blob files
\* that single deletes of those ids leave, in whatever order they are made.
C24_BulkEqualsSequential ==
    [][\A ids \in IdOrders(MaxBulkRows) :
          BulkDelete(GoodCsrf, AsForm(ids))
          => \A each \in IdOrders(MaxBulkRows) :
                {each[k] : k \in 1..Len(each)} = {ids[k] : k \in 1..Len(ids)}
                => LET seq == delete_each_after(files, FS, each)
                   IN /\ files' = seq.files
                      /\ DOMAIN disk' = DOMAIN seq.fs.disk
      ]_vars

----------------------------------------------------------------------------
(* SpecLegacy: the single-file app of src/app.py handling deletes by       *)
(* concurrent workers, delete_file_and_blob_if_unused taken apart into its *)
(* statements: the SELECT of the row and the count by stored_relpath, the  *)
(* DELETE with its commit, the unlink.  An upload is handled whole,        *)
(* between the requests of the workers.                                    *)

\* rows the single-file app's table may ever hold
MaxLegacyRows == 2

\* app.py upload(), handled while no other request is in flight
LegacyUpload ==
    /\ Idle
    /\ legacy.lastrowid < MaxLegacyRows
    /\ \E u \in ConcUploadInputs :
          legacy' = legacy_upload(legacy, UploadReq(GoodCsrf, u), session)
    /\ UNCHANGED <<files, lastrowid, disk, dirs, session, buckets, now, last, pc, loc>>

\* app.py delete_file(), lines 395-397, and delete_file_and_blob_if_unused,
\* lines 363-374: the guards, the row, the count of the rows at its path
LegacyDeleteBegin(w, req, file_id) ==
    /\ pc[w] = "idle"
    /\ IF ~session.is_admin \/ ~require_csrf(req, session)
       THEN Finish(w, "delete", 403, file_id)
       ELSE IF file_id \notin DOMAIN legacy.files
       THEN Finish(w, "delete", 404, file_id)
       ELSE Goto(w, "legacy_delete",
                 [op |-> "delete", file_id |-> file_id,
                  relpath |-> legacy.files[file_id].stored_relpath,
                  ref_count |-> count_by_relpath(legacy.files,
                                                 legacy.files[file_id].stored_relpath)])
    /\ UNCHANGED <<files, lastrowid, disk, dirs, session, buckets, now, last, legacy>>

\* delete_file_and_blob_if_unused, lines 375-376: DELETE and commit
LegacyDeleteRow(w) ==
    /\ pc[w] = "legacy_delete"
    /\ legacy' = [legacy EXCEPT !.files = delete_row(@, loc[w].file_id)]
    /\ Goto(w, "legacy_unlink", loc[w])
    /\ UNCHANGED <<files, lastrowid, disk, dirs, session, buckets, now, last>>

\* delete_file_and_blob_if_unused, lines 380-390: unlink and rmdir if the
\* count read before the DELETE was at most 1; then the redirect
LegacyUnlink(w) ==
    /\ pc[w] = "legacy_unlink"
    /\ LET abs_path == legacy_abs_path(loc[w].relpath)
           parent == Parent(abs_path)
           disk2 == Without(legacy.disk, abs_path)
           empty == \A q \in (DOMAIN disk2) \cup legacy.dirs :
                       q = <<>> \/ Parent(q) # parent
       IN legacy' = IF /\ loc[w].relpath # <<>>
                       /\ loc[w].ref_count <= 1
                       /\ abs_path \in DOMAIN legacy.disk
                       /\ UnderBaseDir(abs_path)
                    THEN [legacy EXCEPT !.disk = disk2,
                                        !.dirs = IF parent \in @ /\ empty
                                                 THEN @ \ {parent} ELSE @]
                    ELSE legacy
    /\ Finish(w, "delete", 302, loc[w].file_id)
    /\ UNCHANGED <<files, lastrowid, disk, dirs, session, buckets, now, last>>

NextLegacy ==
    \/ LegacyUpload
    \/ \E w \in Workers, i \in 1..MaxLegacyRows : LegacyDeleteBegin(w, GoodCsrf, i)
    \/ \E w \in Workers : LegacyDeleteRow(w)
    \/ \E w \in Workers : LegacyUnlink(w)

SpecLegacy == Init /\ [][NextLegacy]_vars

\* the labels of a delete of the single-file app that found its row
LegacyLabels == {"legacy_delete", "legacy_unlink"}

\* C25: in the single-file app, when a delete ends with no row left at its
\* row's path and no other delete of a row at that path in flight (it is
\* the later of the deletes of the blob's last references), the blob file
\* has been removed.
C25_LegacyConcurrentDeletes ==
    [][\A w \in Workers :
          (/\ pc[w] = "legacy_unlink" /\ pc'[w] = "idle"
           /\ count_by_relpath(legacy'.files, loc[w].relpath) = 0
           /\ \A v \in Workers \ {w} :
                 ~(pc[v] \in LegacyLabels /\ loc[v].relpath = loc[w].relpath))
          => legacy_abs_path(loc[w].relpath) \notin DOMAIN legacy'.disk
      ]_vars

====
